---- MODULE Spec2Model ----
(***************************************************************************)
(* The exponential-backoff retry policy of retry-hyper-client              *)
(* (src/backoff.rs, and its jitter-free copy in src/main.rs), driven by    *)
(* the retry middleware that main.rs wraps around the hyper client.        *)
(*                                                                         *)
(* Durations are counted in whole milliseconds.  An f64 (the multiplier,   *)
(* a percentage of jitter) is a fraction <<numerator, denominator>>.       *)
(* An Option is a set with at most one element.                            *)
(***************************************************************************)
EXTENDS Integers, Sequences, FiniteSets, TLC

VARIABLES
    root,       \* the Backoff the retry layer was built with
    policy,     \* the Backoff the middleware currently holds
    prev,       \* the Backoff on which next() last ran (the state last evaluated)
    pc,         \* where the retry loop (or the direct caller of next) stands
    results,    \* the outcome of every attempt so far, in order
    waits,      \* every duration handed to sleep() so far, in order
    sent,       \* how many times the request was handed to the client
    decision,   \* what retry() last returned: "Some" (a future) or "None"
    advances,   \* how many times next() returned a successor
    clamped,    \* whether next() has cut a computed delay down to max_delay
    returned,   \* what client.call(request).await gave the caller (an Option)
    request,    \* the request the caller handed to client.call
    cloned,     \* what clone_request last returned (an Option)
    loops,      \* the retry loops of concurrent calls, each with its own Backoff
    twin        \* the retry loop of main.rs's own Backoff, run in lockstep

\* The state that belongs to the request, to concurrent calls and to the
\* policy of main.rs; one retry loop of backoff.rs leaves it alone.
aux == <<request, cloned, loops, twin>>

vars ==
    <<root, policy, prev, pc, results, waits, sent, decision, advances, clamped,
      returned, request, cloned, loops, twin>>

----------------------------------------------------------------------------
\* Bounds of the model.

\* Largest attempt budget a root Backoff is configured with.
MaxAttempts == 3

\* Largest jitter duration configured (Jitter::Duration), in milliseconds.
MaxJitter == 2

\* How many times a direct caller invokes next() on the states it gets back.
MaxAdvances == 4

----------------------------------------------------------------------------
\* Values.

None == {}

Some(x) == {x}

Unwrap(o) == CHOOSE x \in o : TRUE

\* Result<&Response<Body>, &Error>: a response with its status, or a
\* transport failure.
Ok(status) == [ok |-> TRUE, status |-> status]

Err == [ok |-> FALSE, status |-> 0]

\* Statuses an http::StatusCode can hold (100..999): the first and the last
\* of every class, and the ones in between that the policy is asked about.
StatusCodes ==
    {100, 199, 200, 204, 299, 300, 301, 399, 400, 404, 429, 499, 500, 503, 599,
     600, 999}

\* The statuses the modelled server answers with: one of each class from 1xx
\* to 5xx.
ServerStatuses == {100, 200, 301, 404, 500}

Outcomes == {Ok(s) : s \in ServerStatuses} \cup {Err}

\* Jitter enum.
JitterDuration(d) == [kind |-> "Duration", duration |-> d, percentage |-> <<0, 1>>]

JitterPercentage(p) == [kind |-> "Percentage", duration |-> 0, percentage |-> p]

\* usize is 16 bits wide on the narrowest target Rust builds for; the wrap of
\* attempts - 1 is modelled at that width.
UsizeBits == 16

UsizeMax == 2^UsizeBits - 1

----------------------------------------------------------------------------
\* Backoff: construction.

DefaultAttempts == 10

DefaultDelay == 100

Default ==
    [attempts |-> DefaultAttempts,
     delay |-> DefaultDelay,
     multiplier |-> <<2, 1>>,
     max_delay |-> None,
     jitter |-> None]

with_attempts(self, attempts) == [self EXCEPT !.attempts = attempts]

with_delay(self, delay) == [self EXCEPT !.delay = delay]

with_multiplier(self, multiplier) == [self EXCEPT !.multiplier = multiplier]

with_max_delay(self, max_delay) == [self EXCEPT !.max_delay = Some(max_delay)]

with_jitter(self, jitter) == [self EXCEPT !.jitter = Some(jitter)]

\* The configurations explored: what a caller passes to the builders.
Delays == {0, 100, 200}

Multipliers == {<<-1, 1>>, <<1, 2>>, <<1, 1>>, <<2, 1>>, <<3, 1>>}

MaxDelays == {None, Some(50), Some(150)}

Jitters ==
    {None, Some(JitterDuration(0)), Some(JitterDuration(MaxJitter)),
     Some(JitterPercentage(<<0, 1>>)), Some(JitterPercentage(<<1, 2>>))}

Configure(a, d, m, md, j) ==
    LET b1 == with_multiplier(with_delay(with_attempts(Default, a), d), m)
        b2 == IF md = None THEN b1 ELSE with_max_delay(b1, Unwrap(md))
    IN  IF j = None THEN b2 ELSE with_jitter(b2, Unwrap(j))

\* Every configuration without jitter, and each jitter on the configurations
\* with no or a 100 ms delay, a multiplier of 0.5 or 2, and no or a 150 ms
\* ceiling.
Roots ==
    {Configure(a, d, m, md, None) :
        a \in 0..MaxAttempts, d \in Delays, m \in Multipliers, md \in MaxDelays}
    \cup
    {Configure(a, d, m, md, j) :
        a \in 0..MaxAttempts, d \in {0, 100}, m \in {<<1, 2>>, <<2, 1>>},
        md \in {None, Some(150)}, j \in Jitters \ {None}}

----------------------------------------------------------------------------
\* Duration arithmetic.

\* Duration::mul_f64 panics when the product is negative.
mul_f64_panics(d, m) == d * m[1] < 0

\* Mutant: the duration is divided by the factor.
mul_f64_divides(d, m) == (d * m[2]) \div m[1]

\* Duration::mul_f64: the product, cut to the resolution of a Duration.
mul_f64(d, m) == (d * m[1]) \div m[2]

\* Mutant: the 1.0 is left out, the delay is scaled by the sample alone.
one_plus_without_one(u) == u

\* 1.0 + jitter, for a sampled fraction.
one_plus(u) == <<u[2] + u[1], u[2]>>

----------------------------------------------------------------------------
\* Backoff::next, first half: the delay slept.

\* rng.sample(Uniform::new(Duration::new(0, 0), jitter)): a duration in
\* [0, jitter).
sample_duration(jitter) == 0..(jitter - 1)

\* rng.sample(Uniform::new(0.0, percentage)): a fraction in [0, percentage),
\* here in steps of half the percentage's denominator.
sample_percentage(p) == {<<k, 2 * p[2]>> : k \in 0..(2 * p[1] - 1)}

\* Uniform::new panics on an empty range.
jitter_panics(self) ==
    /\ self.jitter # None
    /\ LET j == Unwrap(self.jitter)
       IN  IF j.kind = "Duration"
           THEN sample_duration(j.duration) = {}
           ELSE sample_percentage(j.percentage) = {}

\* Mutant: without jitter nothing is slept.
effective_delay_none_is_zero(self) ==
    IF self.jitter = None
    THEN {0}
    ELSE LET j == Unwrap(self.jitter)
         IN  IF j.kind = "Duration"
             THEN {self.delay + s : s \in 0..(j.duration - 1)}
             ELSE {(self.delay * (2 * j.percentage[2] + k)) \div (2 * j.percentage[2]) :
                      k \in 0..(2 * j.percentage[1] - 1)}

\* Mutant: the multiplier and the ceiling are applied before the sleep, so
\* that the delay slept is the successor's.
effective_delay_of_successor(self) ==
    LET delay == mul_f64(self.delay, self.multiplier)
        stored == IF self.max_delay # None /\ delay > Unwrap(self.max_delay)
                  THEN Unwrap(self.max_delay)
                  ELSE delay
    IN  IF self.jitter = None
        THEN {stored}
        ELSE LET j == Unwrap(self.jitter)
             IN  IF j.kind = "Duration"
                 THEN {stored + s : s \in 0..(j.duration - 1)}
                 ELSE {(stored * (2 * j.percentage[2] + k)) \div (2 * j.percentage[2]) :
                          k \in 0..(2 * j.percentage[1] - 1)}

\* The values `delay` of line 83 can take: what is handed to sleep().
effective_delay(self) ==
    IF self.jitter = None
    THEN {self.delay}
    ELSE LET j == Unwrap(self.jitter)
         IN  IF j.kind = "Duration"
             THEN {self.delay + s : s \in sample_duration(j.duration)}
             ELSE {mul_f64(self.delay, one_plus(u)) :
                      u \in sample_percentage(j.percentage)}

----------------------------------------------------------------------------
\* Backoff::next, second half: the successor state.

\* Mutant: the budget is not decremented.
attempts_not_decremented(attempts) == {[panicked |-> FALSE, value |-> attempts]}

\* self.attempts - 1 on a usize: when attempts is 0 a build with overflow
\* checks panics and a build without them wraps.
attempts_minus_one(attempts) ==
    IF attempts >= 1
    THEN {[panicked |-> FALSE, value |-> attempts - 1]}
    ELSE {[panicked |-> TRUE, value |-> attempts],
          [panicked |-> FALSE, value |-> (attempts - 1) % (UsizeMax + 1)]}

\* Line 89: the computed delay is above the ceiling.
delay_exceeds_max(self) ==
    /\ self.max_delay # None
    /\ mul_f64(self.delay, self.multiplier) > Unwrap(self.max_delay)

\* Mutant: the successor's delay is computed from the jittered delay that
\* was slept (the shadowing `delay` of line 69) instead of self.delay.
next_delay_from_jittered(self) ==
    LET waited == effective_delay(self)
        slept == IF waited = {}
                 THEN self.delay
                 ELSE CHOOSE w \in waited : \A v \in waited : v <= w
        delay == mul_f64(slept, self.multiplier)
    IN  IF self.max_delay # None /\ delay > Unwrap(self.max_delay)
        THEN Unwrap(self.max_delay)
        ELSE delay

\* Mutant: the ceiling is not applied.
next_delay_unclamped(self) == mul_f64(self.delay, self.multiplier)

\* Mutant: the multiplier is not applied, the delay stays what it was.
next_delay_not_multiplied(self) ==
    IF self.max_delay # None /\ self.delay > Unwrap(self.max_delay)
    THEN Unwrap(self.max_delay)
    ELSE self.delay

\* Lines 87-96: the delay of the successor.
next_delay(self) ==
    LET delay == mul_f64(self.delay, self.multiplier)
    IN  IF self.max_delay # None
        THEN LET max_delay == Unwrap(self.max_delay)
             IN  IF delay_exceeds_max(self) THEN max_delay ELSE delay
        ELSE delay

\* What next() can end with once the sleep is over: a panic (the state is
\* dropped) or the successor.
next(self) ==
    IF mul_f64_panics(self.delay, self.multiplier)
    THEN {[panicked |-> TRUE, state |-> self]}
    ELSE {[panicked |-> a.panicked,
           state |-> IF a.panicked
                     THEN self
                     ELSE [attempts |-> a.value,
                           delay |-> next_delay(self),
                           multiplier |-> self.multiplier,
                           max_delay |-> self.max_delay,
                           jitter |-> self.jitter]] :
             a \in attempts_minus_one(self.attempts)}

----------------------------------------------------------------------------
\* Policy::retry.

\* Mutant: 400 itself is left out of the client errors.
is_client_error_above_400(status) == 400 < status /\ status < 500

is_client_error(status) == 400 <= status /\ status < 500

is_server_error(status) == 500 <= status /\ status < 600

\* Mutant: the budget is not looked at.
retry_ignores_budget(self, result) ==
    IF result.ok
    THEN IF is_server_error(result.status) \/ is_client_error(result.status)
         THEN "Some"
         ELSE "None"
    ELSE "Some"

\* "Some": a future that will run next(); "None": stop.
retry(self, result) ==
    IF self.attempts <= 0
    THEN "None"
    ELSE IF result.ok
         THEN IF is_server_error(result.status) \/ is_client_error(result.status)
              THEN "Some"
              ELSE "None"
         ELSE "Some"

----------------------------------------------------------------------------
\* Requests, and clone_request, which rebuilds one from its parts.

\* Most header entries a request of the model carries.
MaxHeaders == 3

\* One (name, value) entry of a header map.
Entry(name, value) == [name |-> name, value |-> value]

\* HeaderMap::append, which Builder::header calls: a header map is the
\* sequence of its entries in the order its iterator yields them (names in
\* the order they were first added, the values of one name together, in the
\* order they were added), and the value joins those its name already has.
HeaderMap_append(map, name, value) ==
    IF \E i \in 1..Len(map) : map[i].name = name
    THEN LET last == CHOOSE i \in 1..Len(map) :
                         /\ map[i].name = name
                         /\ \A j \in (i + 1)..Len(map) : map[j].name # name
         IN  SubSeq(map, 1, last) \o <<Entry(name, value)>>
                 \o SubSeq(map, last + 1, Len(map))
    ELSE Append(map, Entry(name, value))

\* Request::builder(): GET, "/", HTTP/1.1 and no header.
Request_builder ==
    [method |-> "GET", uri |-> "/", version |-> "HTTP/1.1", headers |-> <<>>]

\* Builder::uri, Builder::method, Builder::version.
Builder_uri(builder, uri) == [builder EXCEPT !.uri = uri]

Builder_method(builder, method) == [builder EXCEPT !.method = method]

Builder_version(builder, version) == [builder EXCEPT !.version = version]

\* Mutant: header() replaces the values its name already has
\* (HeaderMap::insert) instead of joining them.
Builder_header_inserts(builder, name, value) ==
    [builder EXCEPT !.headers =
        IF \E i \in 1..Len(@) : @[i].name = name
        THEN LET first == CHOOSE i \in 1..Len(@) :
                              /\ @[i].name = name
                              /\ \A j \in 1..(i - 1) : @[j].name # name
             IN  SubSeq(@, 1, first - 1) \o <<Entry(name, value)>>
                     \o SelectSeq(SubSeq(@, first + 1, Len(@)),
                                  LAMBDA e : e.name # name)
        ELSE Append(@, Entry(name, value))]

\* Builder::header(name, value): the entry is appended to the header map.
Builder_header(builder, name, value) ==
    [builder EXCEPT !.headers = HeaderMap_append(@, name, value)]

\* Builder::body(body): a Result, the request or an http::Error.  Which of
\* the two the http crate gives is an input of clone_request.
Builder_body(builder, body) ==
    LET built == [method |-> builder.method, uri |-> builder.uri,
                  version |-> builder.version, headers |-> builder.headers,
                  body |-> body]
    IN  {[ok |-> TRUE, request |-> Some(built)], [ok |-> FALSE, request |-> None]}

\* The loop of clone_request over req.headers(): one header() per entry, in
\* the order of the iterator.
RECURSIVE copy_headers(_, _)
copy_headers(new_req, entries) ==
    IF entries = <<>>
    THEN new_req
    ELSE copy_headers(
             Builder_header(new_req, Head(entries).name, Head(entries).value),
             Tail(entries))

\* clone_request(&self, req): what each possible Result of body() leads to,
\* Some(new_req), or the panic of expect("failed to build request").
clone_request(req) ==
    LET new_req ==
            copy_headers(
                Builder_version(
                    Builder_method(Builder_uri(Request_builder, req.uri), req.method),
                    req.version),
                req.headers)
    IN  {[panicked |-> ~built.ok, value |-> built.request] :
            built \in Builder_body(new_req, req.body)}

\* The request main.rs builds: a uri and an empty body.
MainRequest ==
    [method |-> "GET", uri |-> "https://google.com/asdfasdf",
     version |-> "HTTP/1.1", headers |-> <<>>, body |-> ""]

\* The requests of the model: two choices of method, URI, version and body,
\* with every header map that up to MaxHeaders calls of append build from
\* two names and two values.
HeaderEntries == {Entry(n, v) : n \in {"accept", "cookie"}, v \in {"a", "b"}}

RECURSIVE HeaderMapOf(_)
HeaderMapOf(added) ==
    IF added = <<>>
    THEN <<>>
    ELSE LET e == added[Len(added)]
         IN  HeaderMap_append(HeaderMapOf(SubSeq(added, 1, Len(added) - 1)),
                              e.name, e.value)

HeaderMaps ==
    {HeaderMapOf(added) :
        added \in UNION {[1..n -> HeaderEntries] : n \in 0..MaxHeaders}}

Requests ==
    {[MainRequest EXCEPT !.headers = map] : map \in HeaderMaps}
    \cup {[method |-> "POST", uri |-> "/x", version |-> "HTTP/2.0",
           headers |-> map, body |-> "b"] : map \in HeaderMaps}

\* The part of the state one retry loop of backoff.rs does not use, as it
\* is when there is one call, of the request of main.rs.
NoAux ==
    /\ request = MainRequest
    /\ cloned = None
    /\ loops = <<>>
    /\ twin = None

----------------------------------------------------------------------------
\* The retry loop: main.rs hands the request to the client wrapped in
\* RetryLayer::new(Backoff), which sends it, asks retry() about each outcome,
\* awaits the future it returns, and sends the request again.

Init ==
    /\ root \in Roots
    /\ policy = root
    /\ prev = root
    /\ pc = "Idle"
    /\ results = <<>>
    /\ waits = <<>>
    /\ sent = 0
    /\ decision = "None"
    /\ advances = 0
    /\ clamped = FALSE
    /\ returned = None
    /\ NoAux

\* client.call(request): the first attempt is sent.
Call ==
    /\ pc = "Idle"
    /\ pc' = "Called"
    /\ sent' = sent + 1
    /\ UNCHANGED <<root, policy, prev, results, waits, decision, advances, clamped, returned, aux>>

\* The attempt in flight completes, with a response or a transport failure.
Respond ==
    /\ pc = "Called"
    /\ \E result \in Outcomes : results' = Append(results, result)
    /\ pc' = "Responded"
    /\ UNCHANGED <<root, policy, prev, waits, sent, decision, advances, clamped, returned, aux>>

\* Mutant: on None the caller gets the outcome of the first attempt.
Retry_returns_first_outcome ==
    /\ pc = "Responded"
    /\ decision' = retry(policy, results[Len(results)])
    /\ IF decision' = "None"
       THEN /\ pc' = "Done"
            /\ returned' = Some(results[1])
       ELSE /\ pc' = "Checking"
            /\ UNCHANGED returned
    /\ UNCHANGED <<root, policy, prev, results, waits, sent, advances, clamped, aux>>

\* The middleware asks the policy; on None the outcome goes to the caller.
Retry ==
    /\ pc = "Responded"
    /\ LET result == results[Len(results)]
       IN  /\ decision' = retry(policy, result)
           /\ IF decision' = "None"
              THEN /\ pc' = "Done"
                   /\ returned' = Some(result)
              ELSE /\ pc' = "Checking"
                   /\ UNCHANGED returned
    /\ UNCHANGED <<root, policy, prev, results, waits, sent, advances, clamped, aux>>

\* The future is polled: next() computes the delay and sleeps.
StartNext ==
    /\ pc = "Checking"
    /\ prev' = policy
    /\ IF jitter_panics(policy)
       THEN /\ pc' = "Panicked"
            /\ UNCHANGED waits
       ELSE /\ \E delay \in effective_delay(policy) : waits' = Append(waits, delay)
            /\ pc' = "Sleeping"
    /\ UNCHANGED <<root, policy, results, sent, decision, advances, clamped, returned, aux>>

\* The sleep is over: next() returns the successor, which becomes the policy.
FinishNext ==
    /\ pc = "Sleeping"
    /\ \E r \in next(policy) :
          IF r.panicked
          THEN /\ pc' = "Panicked"
               /\ UNCHANGED <<policy, advances, clamped>>
          ELSE /\ pc' = "Retrying"
               /\ policy' = r.state
               /\ advances' = advances + 1
               /\ clamped' = (clamped \/ delay_exceeds_max(policy))
    /\ UNCHANGED <<root, prev, results, waits, sent, decision, returned, aux>>

\* Mutant: the request is sent again while next() still sleeps.
Resend_while_sleeping ==
    /\ pc \in {"Sleeping", "Retrying"}
    /\ pc' = "Called"
    /\ sent' = sent + 1
    /\ UNCHANGED <<root, policy, prev, results, waits, decision, advances, clamped, returned, aux>>

\* The middleware sends the request again.
Resend ==
    /\ pc = "Retrying"
    /\ pc' = "Called"
    /\ sent' = sent + 1
    /\ UNCHANGED <<root, policy, prev, results, waits, decision, advances, clamped, returned, aux>>

Next == Call \/ Respond \/ Retry \/ StartNext \/ FinishNext \/ Resend

Spec == Init /\ [][Next]_vars

----------------------------------------------------------------------------
\* next() called directly: it is a public method, and nothing but retry()
\* checks the budget before it.

InitAdvance ==
    /\ root \in Roots
    /\ policy = root
    /\ prev = root
    /\ pc = "Direct"
    /\ results = <<>>
    /\ waits = <<>>
    /\ sent = 0
    /\ decision = "None"
    /\ advances = 0
    /\ clamped = FALSE
    /\ returned = None
    /\ NoAux

\* One whole call of next().await on the state the caller holds.
Advance ==
    /\ pc = "Direct"
    /\ Len(waits) < MaxAdvances
    /\ prev' = policy
    /\ IF jitter_panics(policy)
       THEN /\ pc' = "Panicked"
            /\ UNCHANGED <<waits, policy, advances, clamped>>
       ELSE /\ \E delay \in effective_delay(policy) : waits' = Append(waits, delay)
            /\ \E r \in next(policy) :
                  IF r.panicked
                  THEN /\ pc' = "Panicked"
                       /\ UNCHANGED <<policy, advances, clamped>>
                  ELSE /\ pc' = "Direct"
                       /\ policy' = r.state
                       /\ advances' = advances + 1
                       /\ clamped' = (clamped \/ delay_exceeds_max(policy))
    /\ UNCHANGED <<root, results, sent, decision, returned, aux>>

NextAdvance == Advance

SpecAdvance == InitAdvance /\ [][NextAdvance]_vars

----------------------------------------------------------------------------
\* Properties of the retry loop (checked under Spec).

Last(seq) == seq[Len(seq)]

\* The outcome is one the policy retries on: a transport failure, a 4xx or
\* a 5xx.
Retryable(result) == ~result.ok \/ (400 <= result.status /\ result.status <= 599)

\* C1: asked with a Backoff whose remaining attempts is 0, retry() answers
\* None for every outcome, a transport failure and a 5xx included; and the
\* loop never holds a scheduled retry (a pending or sleeping future) that was
\* taken from a state with 0 remaining attempts.
C1_StopWhenBudgetIsZero ==
    /\ (pc = "Responded" /\ policy.attempts = 0) =>
          /\ retry(policy, Err) = "None"
          /\ \A status \in StatusCodes : retry(policy, Ok(status)) = "None"
    /\ pc \in {"Checking", "Sleeping"} => policy.attempts > 0
    /\ pc = "Retrying" => prev.attempts > 0
    /\ (pc \in {"Done", "Checking"} /\ policy.attempts = 0) =>
          (decision = "None" /\ pc = "Done")

\* C1's case: the budget ran out after retries and a 500 was answered with
\* Stop.
C1_Witness ==
    /\ pc = "Done"
    /\ policy.attempts = 0
    /\ root.attempts > 0
    /\ Last(results) = Ok(500)

\* C2: with remaining attempts > 0, retry() answers Some exactly for a
\* transport failure, a 4xx or a 5xx, and None for every other status; in
\* particular failure -> Some, 200 -> None, 301 -> None, 404 -> Some,
\* 500 -> Some; and the decision the loop acted on is that one.
C2_DecisionTable ==
    /\ (pc = "Responded" /\ policy.attempts > 0) =>
          /\ \A status \in StatusCodes :
                (retry(policy, Ok(status)) = "Some") <=> Retryable(Ok(status))
          /\ retry(policy, Err) = "Some"
          /\ retry(policy, Ok(200)) = "None"
          /\ retry(policy, Ok(301)) = "None"
          /\ retry(policy, Ok(404)) = "Some"
          /\ retry(policy, Ok(500)) = "Some"
    /\ (pc \in {"Done", "Checking"} /\ policy.attempts > 0) =>
          /\ (decision = "Some") <=> Retryable(Last(results))
          /\ (pc = "Checking") <=> Retryable(Last(results))

\* C2's case: a 404 arrived while budget remained and a retry was scheduled.
C2_Witness ==
    /\ pc = "Checking"
    /\ policy.attempts > 0
    /\ Last(results) = Ok(404)
    /\ decision = "Some"

\* The duration w is one the jitter of Backoff b allows around b's delay.
IsEffectiveWaitOf(b, w) ==
    IF b.jitter = None
    THEN w = b.delay
    ELSE LET j == Unwrap(b.jitter)
         IN  IF j.kind = "Duration"
             THEN b.delay <= w /\ w < b.delay + j.duration
             ELSE /\ b.delay <= w
                  /\ w * j.percentage[2] <= b.delay * (j.percentage[2] + j.percentage[1])

\* C3 as stated: once next() has returned, the duration it slept is the
\* effective wait of the returned (advanced) state.
C3_WaitIsOfReturnedState ==
    pc = "Retrying" => IsEffectiveWaitOf(policy, Last(waits))

\* C3 as amended: the duration slept on a Retry decision is the effective
\* wait of the state retry() was asked with, the one next() ran on; the
\* delay of the returned state is not slept before the request is sent again.
C3_WaitIsOfEvaluatedState ==
    /\ pc = "Sleeping" =>
          (prev = policy /\ IsEffectiveWaitOf(policy, Last(waits)))
    /\ pc = "Retrying" =>
          /\ IsEffectiveWaitOf(prev, Last(waits))
          /\ Len(waits) = advances

\* C3's case: a retry was decided on a state whose successor has another
\* delay, the sleep is over and the successor is in place.
C3_Witness ==
    /\ pc = "Retrying"
    /\ prev.delay # policy.delay
    /\ Last(waits) = prev.delay
    /\ policy.attempts = prev.attempts - 1

\* The first n elements of seq.
Prefix(seq, n) == [i \in 1..n |-> seq[i]]

\* The configuration of C4: 3 attempts, 100 ms, multiplier 2, no ceiling,
\* no jitter.
Config3x100x2 == Configure(3, 100, <<2, 1>>, None, None)

\* C4: from 3 attempts, 100 ms, multiplier 2, no ceiling and no jitter, the
\* outcomes [500, 500, 200] give the waits [100 ms, 200 ms], 3 attempts
\* sent, and the loop stops returning the 200.
C4_Scenario500_500_200 ==
    (root = Config3x100x2 /\ Len(results) >= 3
       /\ Prefix(results, 3) = <<Ok(500), Ok(500), Ok(200)>>) =>
        /\ results = <<Ok(500), Ok(500), Ok(200)>>
        /\ sent = 3
        /\ waits = <<100, 200>>
        /\ pc \in {"Responded", "Done"}
        /\ pc = "Done" => returned = Some(Ok(200))
        /\ pc = "Responded" => retry(policy, Last(results)) = "None"

\* C4's case: the scenario ran to its end.
C4_Witness ==
    /\ root = Config3x100x2
    /\ results = <<Ok(500), Ok(500), Ok(200)>>
    /\ pc = "Done"
    /\ waits = <<100, 200>>

\* The configuration of C5: 2 attempts, 100 ms, multiplier 3, ceiling
\* 150 ms, no jitter.
Config2x100x3Max150 == Configure(2, 100, <<3, 1>>, Some(150), None)

\* C5: from 2 attempts, 100 ms, multiplier 3 and a 150 ms ceiling, when
\* every attempt ends in a transport failure the loop waits once, 100 ms,
\* sends no third attempt, and stops with the second attempt's failure.
C5_ScenarioTwoFailures ==
    (root = Config2x100x3Max150 /\ \A i \in 1..Len(results) : results[i] = Err) =>
        /\ sent <= 2
        /\ Len(waits) <= 1
        /\ pc = "Done" =>
              (waits = <<100>> /\ sent = 2 /\ returned = Some(Err))

\* C6: when the loop stops the caller receives the outcome of the last
\* attempt sent, whatever it is; nothing is returned before that, and what
\* is returned is never another attempt's outcome nor an outcome no attempt
\* had.
C6_ReturnsLastOutcome ==
    /\ pc = "Done" =>
          /\ Len(results) = sent
          /\ returned = Some(Last(results))
    /\ pc \notin {"Done"} => returned = None

\* C6's case: the loop stopped on an exhausted budget with a final 5xx that
\* differs from what the first attempt got.
C6_Witness ==
    /\ pc = "Done"
    /\ sent > 1
    /\ policy.attempts = 0
    /\ results[1] = Err
    /\ returned = Some(Ok(500))

----------------------------------------------------------------------------
\* Properties of next(): C7 and C8 are checked under SpecAdvance, where
\* every state a configuration can build is advanced, the ones with no
\* attempts left included; C9 and C10 under Spec, where next() only runs on
\* the states retry() lets through.

\* next() has just returned a successor, to its direct caller or to the
\* retry loop: prev is the state it ran on, policy the state it returned.
Advanced == pc \in {"Direct", "Retrying"} /\ advances > 0

Min(a, b) == IF a <= b THEN a ELSE b

\* delay * multiplier, in whole units of a Duration.
Scaled(b) == (b.delay * b.multiplier[1]) \div b.multiplier[2]

\* The multiplier is 1 or more.
AtLeastOne(m) == m[1] >= m[2]

\* C7: an advance of a state with remaining attempts > 0 yields a successor
\* with one attempt less and the delay min(delay * multiplier, max_delay)
\* (the product itself when no ceiling is set), the rest carried over; and
\* after n <= initial advances from a root the remaining attempts are
\* initial - n, never negative.
C7_AdvanceDecrementsAndScales ==
    /\ (Advanced /\ prev.attempts > 0) =>
          /\ policy.attempts = prev.attempts - 1
          /\ policy.delay = IF prev.max_delay = None
                            THEN Scaled(prev)
                            ELSE Min(Scaled(prev), Unwrap(prev.max_delay))
          /\ policy.multiplier = prev.multiplier
          /\ policy.max_delay = prev.max_delay
          /\ policy.jitter = prev.jitter
    /\ advances <= root.attempts =>
          /\ policy.attempts = root.attempts - advances
          /\ policy.attempts >= 0

\* C7's case: the whole budget of a root was advanced away, the delay
\* growing and then meeting the ceiling.
C7_Witness ==
    /\ Advanced
    /\ root.attempts = 3
    /\ advances = 3
    /\ policy.attempts = 0
    /\ root.delay = 100
    /\ policy.delay = 150
    /\ policy.max_delay = Some(150)

\* C8: next() on a state with 0 remaining attempts never returns a
\* successor, and so never one whose counter wrapped around.
C8_AdvanceAtZeroRejected ==
    Advanced => (prev.attempts > 0 /\ policy.attempts < prev.attempts)

\* C9 as stated: for every configuration with a positive multiplier the
\* stored delay is non-negative and never smaller than its predecessor's.
C9_DelayNeverDecreases ==
    /\ policy.delay >= 0
    /\ (Advanced /\ root.multiplier[1] > 0) => prev.delay <= policy.delay

\* C9 as amended: the stored delay is non-negative; and for a configuration
\* whose multiplier is at least 1 and whose ceiling, when set, is not below
\* the initial delay, the successor's delay is never smaller than its
\* predecessor's.
C9_DelayNeverDecreasesFromOne ==
    /\ policy.delay >= 0
    /\ (Advanced /\ AtLeastOne(root.multiplier)
          /\ (root.max_delay = None \/ root.delay <= Unwrap(root.max_delay))) =>
          prev.delay <= policy.delay

\* C9's case: a growing delay that met its ceiling and stayed there.
C9_Witness ==
    /\ Advanced
    /\ advances = 2
    /\ root.multiplier = <<3, 1>>
    /\ root.delay = 100
    /\ root.max_delay = Some(150)
    /\ prev.delay = 150
    /\ policy.delay = 150

\* C10 as stated: with a max_delay set every delay an advance produces is
\* <= max_delay, and once an advance has clamped the delay to max_delay
\* every later state's delay equals max_delay.
C10_ClampedStaysClamped ==
    /\ (Advanced /\ policy.max_delay # None) =>
          policy.delay <= Unwrap(policy.max_delay)
    /\ clamped => policy.delay = Unwrap(policy.max_delay)

\* C10 as amended: with a max_delay set every delay an advance produces is
\* <= max_delay; and with a multiplier of at least 1, once an advance has
\* clamped the delay to max_delay every later state's delay equals
\* max_delay.
C10_ClampedStaysClampedFromOne ==
    /\ (Advanced /\ policy.max_delay # None) =>
          policy.delay <= Unwrap(policy.max_delay)
    /\ (clamped /\ AtLeastOne(root.multiplier)) =>
          policy.delay = Unwrap(policy.max_delay)

\* C10's case: the delay was clamped, and two advances later it is still
\* the ceiling.
C10_Witness ==
    /\ Advanced
    /\ clamped
    /\ advances = 3
    /\ root.multiplier = <<2, 1>>
    /\ root.delay = 100
    /\ policy.max_delay = Some(150)
    /\ prev.delay = 150
    /\ policy.delay = 150

----------------------------------------------------------------------------
\* Jitter (checked under Spec).

\* The configuration b with its jitter taken out.
NoJitter(b) == [b EXCEPT !.jitter = None]

\* The delay stored after n advances from configuration b, computed from
\* the delay, the multiplier and the ceiling alone.
RECURSIVE StoredDelay(_, _)
StoredDelay(b, n) ==
    IF n = 0
    THEN b.delay
    ELSE LET d == StoredDelay(b, n - 1)
             product == (d * b.multiplier[1]) \div b.multiplier[2]
         IN  IF b.max_delay = None
             THEN product
             ELSE Min(product, Unwrap(b.max_delay))

IsDurationJitter(b) == b.jitter # None /\ Unwrap(b.jitter).kind = "Duration"

IsPercentageJitter(b) == b.jitter # None /\ Unwrap(b.jitter).kind = "Percentage"

\* C11: the stored delay and the remaining attempts after n advances are
\* those of the same configuration without jitter, whatever samples were
\* drawn for the waits: jitter never reaches the stored state.
C11_JitterLeavesStoredStateAlone ==
    /\ policy.delay = StoredDelay(NoJitter(root), advances)
    /\ policy.attempts = root.attempts - advances
    /\ policy.multiplier = root.multiplier
    /\ policy.max_delay = root.max_delay
    /\ policy.jitter = root.jitter

\* C11's case: jitter is configured, two waits were lengthened by it, and
\* the successor is in place.
C11_Witness ==
    /\ root.jitter # None
    /\ pc = "Retrying"
    /\ advances = 2
    /\ waits[1] > StoredDelay(root, 0)
    /\ waits[2] > StoredDelay(root, 1)
    /\ policy.delay = 150

\* C12: with no jitter configured every duration slept is exactly the
\* stored delay of the state next() ran on.
C12_NoJitterWaitIsStoredDelay ==
    root.jitter = None =>
        /\ \A i \in 1..Len(waits) : waits[i] = StoredDelay(root, i - 1)
        /\ pc = "Sleeping" => Last(waits) = policy.delay

\* C12's case: two sleeps without jitter, of a delay that changed in
\* between.
C12_Witness ==
    /\ root.jitter = None
    /\ pc = "Sleeping"
    /\ waits = <<200, 100>>

\* C13: with Jitter::Duration(J) every duration slept is in
\* [delay, delay + J), and whenever next() ran a wait was produced, J = 0
\* included: next() never ends before it sleeps.
C13_AbsoluteJitterRange ==
    IsDurationJitter(root) =>
        /\ \A i \in 1..Len(waits) :
              /\ StoredDelay(root, i - 1) <= waits[i]
              /\ waits[i] < StoredDelay(root, i - 1) + Unwrap(root.jitter).duration
        /\ pc = "Panicked" => Len(waits) > advances

----------------------------------------------------------------------------
\* Order and termination of the loop (checked under Spec).

\* The attempts handed to the client whose outcome is not known yet.
InFlight == sent - Len(results)

\* C17: attempts are strictly sequential: at most one is in flight; while
\* the policy is asked, decides, or sleeps, none is; and attempt k + 1 is in
\* flight only after k outcomes are known, the retry decision on the k-th
\* was Retry, and k waits were slept to their end (k successors returned).
C17_AttemptsAreSequential ==
    /\ InFlight \in {0, 1}
    /\ (InFlight = 1) <=> (pc = "Called")
    /\ pc \in {"Responded", "Checking", "Sleeping", "Retrying", "Done"} =>
          InFlight = 0
    /\ pc \in {"Checking", "Sleeping", "Retrying"} => decision = "Some"
    /\ pc = "Called" =>
          /\ Len(results) = sent - 1
          /\ Len(waits) = sent - 1
          /\ advances = sent - 1
          /\ sent > 1 => (decision = "Some" /\ Retryable(Last(results)))

\* C17's case: the third attempt is in flight, after two outcomes, two
\* decisions to retry and two finished waits.
C17_Witness ==
    /\ pc = "Called"
    /\ sent = 3
    /\ Len(results) = 2
    /\ Len(waits) = 2
    /\ advances = 2

\* C19: a loop started with N attempts sends the request at most N + 1
\* times and always gets to Stop: in every state short of Stop it can take
\* a further step, and from Stop it takes none (no attempt, no wait).
C19_TerminatesAtStop ==
    /\ sent <= root.attempts + 1
    /\ Len(waits) <= root.attempts
    /\ pc # "Done" => ENABLED Next
    /\ pc = "Done" => ~ENABLED Next

----------------------------------------------------------------------------
\* The retry loop with the request it carries: the middleware calls
\* clone_request on the request it holds before it sends it, the first time
\* and on every retry, and keeps the copy for the next retry.

\* The policies of these loops: the default one, with up to two attempts.
CloneRoots == {with_attempts(Default, a) : a \in 0..2}

InitClone ==
    /\ root \in CloneRoots
    /\ policy = root
    /\ prev = root
    /\ pc = "Idle"
    /\ results = <<>>
    /\ waits = <<>>
    /\ sent = 0
    /\ decision = "None"
    /\ advances = 0
    /\ clamped = FALSE
    /\ returned = None
    /\ request \in Requests
    /\ cloned = None
    /\ loops = <<>>
    /\ twin = None

\* client.call(request): the request is cloned, then sent for the first
\* time; a panic of clone_request ends the call before anything is sent.
CloneCall ==
    /\ pc = "Idle"
    /\ \E new_req \in clone_request(request) :
          IF new_req.panicked
          THEN /\ pc' = "Failed"
               /\ UNCHANGED <<cloned, sent>>
          ELSE /\ cloned' = new_req.value
               /\ pc' = "Called"
               /\ sent' = sent + 1
    /\ UNCHANGED <<root, policy, prev, results, waits, decision, advances, clamped, returned>>
    /\ UNCHANGED <<request, loops, twin>>

\* Mutant: the request is sent although cloning it panicked.
CloneResend_sends_despite_failure ==
    /\ pc = "Retrying"
    /\ \E new_req \in clone_request(Unwrap(cloned)) :
          IF new_req.panicked
          THEN /\ pc' = "Failed"
               /\ sent' = sent + 1
               /\ UNCHANGED cloned
          ELSE /\ cloned' = new_req.value
               /\ pc' = "Called"
               /\ sent' = sent + 1
    /\ UNCHANGED <<root, policy, prev, results, waits, decision, advances, clamped, returned>>
    /\ UNCHANGED <<request, loops, twin>>

\* The retry: the copy kept from the last send is cloned in its turn, then
\* sent; a panic of clone_request ends the loop before anything is sent.
CloneResend ==
    /\ pc = "Retrying"
    /\ \E new_req \in clone_request(Unwrap(cloned)) :
          IF new_req.panicked
          THEN /\ pc' = "Failed"
               /\ UNCHANGED <<cloned, sent>>
          ELSE /\ cloned' = new_req.value
               /\ pc' = "Called"
               /\ sent' = sent + 1
    /\ UNCHANGED <<root, policy, prev, results, waits, decision, advances, clamped, returned>>
    /\ UNCHANGED <<request, loops, twin>>

NextClone ==
    CloneCall \/ Respond \/ Retry \/ StartNext \/ FinishNext \/ CloneResend

SpecClone == InitClone /\ [][NextClone]_vars

\* How many times an entry occurs in a header map.
Count(map, e) == Cardinality({i \in 1..Len(map) : map[i] = e})

\* C15: every request clone_request returns has the method, URI, version
\* and body of the original, and the header entries of the original: each
\* (name, value) entry as many times, repeated names included, and in the
\* original order.
C15_CloneEqualsOriginal ==
    cloned # None =>
        LET copy == Unwrap(cloned)
        IN  /\ copy.method = request.method
            /\ copy.uri = request.uri
            /\ copy.version = request.version
            /\ copy.body = request.body
            /\ \A e \in HeaderEntries :
                  Count(copy.headers, e) = Count(request.headers, e)
            /\ copy.headers = request.headers

\* C15's case: a copy, and the copy of that copy, of a request with two
\* values under one header name followed by another name.
C15_Witness ==
    /\ cloned # None
    /\ sent = 2
    /\ Len(request.headers) = 3
    /\ request.headers[1].name = request.headers[2].name
    /\ request.headers[1].value # request.headers[2].value
    /\ request.headers[3].name # request.headers[1].name

\* C16: when body() rejects the rebuilt request, the loop is over at once:
\* the attempt the copy was made for is not sent, nothing is returned to
\* the caller, and no step follows, neither a retry of the copy nor another
\* attempt.
C16_CloneFailureIsFatal ==
    pc = "Failed" =>
        /\ ~ENABLED NextClone
        /\ sent = Len(results)
        /\ Len(waits) = Len(results)
        /\ returned = None

\* C16's case: the copy for the first retry failed, after one attempt was
\* answered and its wait slept.
C16_Witness ==
    /\ pc = "Failed"
    /\ sent = 1
    /\ Len(results) = 1
    /\ Len(waits) = 1

----------------------------------------------------------------------------
\* Concurrent calls through one retry layer: each call gets a clone of the
\* layer's Backoff, retry() clones the state it is asked on, and next(self)
\* consumes that clone and returns a new state.  The steps of the loops
\* interleave freely.

\* The calls in progress.
LoopIds == {1, 2}

\* The Backoff of the layer.
LoopRoots ==
    {Configure(a, 100, <<2, 1>>, Some(150), j) :
        a \in 0..2, j \in {None, Some(JitterDuration(MaxJitter))}}

\* What the attempts of these calls end with.
LoopOutcomes == {Ok(200), Ok(500), Err}

InitLoops ==
    /\ root \in LoopRoots
    /\ policy = root
    /\ prev = root
    /\ pc = "Loops"
    /\ results = <<>>
    /\ waits = <<>>
    /\ sent = 0
    /\ decision = "None"
    /\ advances = 0
    /\ clamped = FALSE
    /\ returned = None
    /\ request = MainRequest
    /\ cloned = None
    /\ twin = None
    /\ loops = [i \in LoopIds |->
                  [policy |-> root, pc |-> "Idle", results |-> <<>>,
                   states |-> <<root>>, waited |-> 0, sent |-> 0]]

\* client.call(request) of call i.
LoopCall(i) ==
    /\ loops[i].pc = "Idle"
    /\ loops' = [loops EXCEPT ![i].pc = "Called", ![i].sent = @ + 1]

\* The attempt of call i completes.
LoopRespond(i) ==
    /\ loops[i].pc = "Called"
    /\ \E result \in LoopOutcomes :
          loops' = [loops EXCEPT ![i].pc = "Responded",
                                 ![i].results = Append(@, result)]

\* The middleware of call i asks its policy.
LoopRetry(i) ==
    /\ loops[i].pc = "Responded"
    /\ LET result == loops[i].results[Len(loops[i].results)]
       IN  loops' = [loops EXCEPT ![i].pc =
                        IF retry(loops[i].policy, result) = "None"
                        THEN "Done"
                        ELSE "Checking"]

\* next() of call i computes its delay and sleeps.
LoopStartNext(i) ==
    /\ loops[i].pc = "Checking"
    /\ IF jitter_panics(loops[i].policy)
       THEN loops' = [loops EXCEPT ![i].pc = "Panicked"]
       ELSE \E delay \in effective_delay(loops[i].policy) :
               loops' = [loops EXCEPT ![i].pc = "Sleeping", ![i].waited = delay]

\* Mutant: the successor is written to one Backoff that all calls use.
LoopFinishNext_shared(i) ==
    /\ loops[i].pc = "Sleeping"
    /\ \E r \in next(loops[i].policy) :
          IF r.panicked
          THEN loops' = [loops EXCEPT ![i].pc = "Panicked"]
          ELSE loops' = [j \in LoopIds |->
                            IF j = i
                            THEN [loops[j] EXCEPT !.pc = "Retrying",
                                                  !.policy = r.state,
                                                  !.states = Append(@, r.state)]
                            ELSE [loops[j] EXCEPT !.policy = r.state]]

\* The sleep of call i is over: next() returns the successor, which becomes
\* the policy of call i.
LoopFinishNext(i) ==
    /\ loops[i].pc = "Sleeping"
    /\ \E r \in next(loops[i].policy) :
          IF r.panicked
          THEN loops' = [loops EXCEPT ![i].pc = "Panicked"]
          ELSE loops' = [loops EXCEPT ![i].pc = "Retrying",
                                      ![i].policy = r.state,
                                      ![i].states = Append(@, r.state)]

\* The middleware of call i sends the request again.
LoopResend(i) ==
    /\ loops[i].pc = "Retrying"
    /\ loops' = [loops EXCEPT ![i].pc = "Called", ![i].sent = @ + 1]

NextLoops ==
    /\ \E i \in LoopIds :
          \/ LoopCall(i)
          \/ LoopRespond(i)
          \/ LoopRetry(i)
          \/ LoopStartNext(i)
          \/ LoopFinishNext(i)
          \/ LoopResend(i)
    /\ UNCHANGED <<root, policy, prev, pc, results, waits, sent, decision, advances, clamped, returned>>
    /\ UNCHANGED <<request, cloned, twin>>

SpecLoops == InitLoops /\ [][NextLoops]_vars

\* The states a loop that runs alone holds, from b on, once it has dealt
\* with each of the outcomes in order: asked retry() and, on Retry, slept and
\* taken the successor.
RECURSIVE SoloStates(_, _)
SoloStates(b, outcomes) ==
    IF outcomes = <<>>
    THEN <<b>>
    ELSE IF \/ retry(b, Head(outcomes)) = "None"
            \/ jitter_panics(b)
            \/ \A r \in next(b) : r.panicked
         THEN <<b>>
         ELSE LET r == CHOOSE r \in next(b) : ~r.panicked
              IN  <<b>> \o SoloStates(r.state, Tail(outcomes))

\* The outcomes call i has dealt with: all but the one it is deciding or
\* sleeping on.
DealtWith(i) ==
    IF loops[i].pc \in {"Responded", "Checking", "Sleeping"}
    THEN SubSeq(loops[i].results, 1, Len(loops[i].results) - 1)
    ELSE loops[i].results

\* C18: under every interleaving, the Backoff states each call went through
\* (remaining attempts and stored delay among their fields) are those a
\* loop run alone from the layer's Backoff goes through on the same
\* outcomes, and the state it holds is the last of them.
C18_LoopsDoNotInterfere ==
    \A i \in LoopIds :
        /\ loops[i].states = SoloStates(root, DealtWith(i))
        /\ loops[i].policy = loops[i].states[Len(loops[i].states)]

\* C18's case: the two calls have advanced a different number of times, one
\* of them after the other had started.
C18_Witness ==
    /\ Len(loops[1].states) = 3
    /\ Len(loops[2].states) = 2
    /\ loops[1].pc = "Retrying"
    /\ loops[2].pc = "Called"
    /\ root.attempts = 2

----------------------------------------------------------------------------
\* The Backoff of main.rs: the same policy without the jitter field.

\* impl Default for Backoff (main.rs).
main_Default ==
    [attempts |-> 10, delay |-> 100, multiplier |-> <<2, 1>>, max_delay |-> None]

\* The builders of main.rs.
main_with_attempts(self, attempts) == [self EXCEPT !.attempts = attempts]

main_with_delay(self, delay) == [self EXCEPT !.delay = delay]

main_with_multiplier(self, multiplier) == [self EXCEPT !.multiplier = multiplier]

main_with_max_delay(self, max_delay) == [self EXCEPT !.max_delay = Some(max_delay)]

\* The main.rs Backoff with the attempts, delay, multiplier and max_delay of
\* a backoff.rs one.
main_Configure(b) ==
    LET base == main_with_multiplier(
                    main_with_delay(main_with_attempts(main_Default, b.attempts),
                                    b.delay),
                    b.multiplier)
    IN  IF b.max_delay = None
        THEN base
        ELSE main_with_max_delay(base, Unwrap(b.max_delay))

\* Mutant: the product is stored without looking at max_delay.
main_next_delay_unclamped(self) == mul_f64(self.delay, self.multiplier)

\* The delay main.rs's next() stores: the product, cut down to max_delay.
main_next_delay(self) ==
    LET delay == mul_f64(self.delay, self.multiplier)
    IN  IF self.max_delay # None
        THEN LET max_delay == Unwrap(self.max_delay)
             IN  IF delay > max_delay THEN max_delay ELSE delay
        ELSE delay

\* What main.rs's next() can end with once sleep(self.delay) is over.
main_next(self) ==
    IF mul_f64_panics(self.delay, self.multiplier)
    THEN {[panicked |-> TRUE, state |-> self]}
    ELSE {[panicked |-> a.panicked,
           state |-> IF a.panicked
                     THEN self
                     ELSE [attempts |-> a.value,
                           delay |-> main_next_delay(self),
                           multiplier |-> self.multiplier,
                           max_delay |-> self.max_delay]] :
             a \in attempts_minus_one(self.attempts)}

\* Policy::retry of main.rs.
main_retry(self, result) ==
    IF self.attempts <= 0
    THEN "None"
    ELSE IF result.ok
         THEN IF is_server_error(result.status) \/ is_client_error(result.status)
              THEN "Some"
              ELSE "None"
         ELSE "Some"

----------------------------------------------------------------------------
\* Two retry loops in lockstep on the same outcomes: one holds a backoff.rs
\* Backoff without jitter (policy), the other the main.rs Backoff with the
\* same attempts, delay, multiplier and max_delay (twin).

\* The backoff.rs policies without jitter.
TwinRoots == {b \in Roots : b.jitter = None}

InitTwin ==
    /\ root \in TwinRoots
    /\ policy = root
    /\ prev = root
    /\ pc = "Idle"
    /\ results = <<>>
    /\ waits = <<>>
    /\ sent = 0
    /\ decision = "None"
    /\ advances = 0
    /\ clamped = FALSE
    /\ returned = None
    /\ request = MainRequest
    /\ cloned = None
    /\ loops = <<>>
    /\ twin = [policy |-> main_Configure(root), pc |-> "Idle", waits |-> <<>>,
               decision |-> "None"]

\* Both loops send their first attempt.
TwinCall ==
    /\ pc = "Idle" /\ twin.pc = "Idle"
    /\ pc' = "Called"
    /\ sent' = sent + 1
    /\ twin' = [twin EXCEPT !.pc = "Called"]
    /\ UNCHANGED <<root, policy, prev, results, waits, decision, advances, clamped, returned>>
    /\ UNCHANGED <<request, cloned, loops>>

\* Both attempts complete with the same outcome.
TwinRespond ==
    /\ pc = "Called" /\ twin.pc = "Called"
    /\ \E result \in Outcomes : results' = Append(results, result)
    /\ pc' = "Responded"
    /\ twin' = [twin EXCEPT !.pc = "Responded"]
    /\ UNCHANGED <<root, policy, prev, waits, sent, decision, advances, clamped, returned>>
    /\ UNCHANGED <<request, cloned, loops>>

\* Each middleware asks its policy about the outcome.
TwinRetry ==
    /\ pc = "Responded" /\ twin.pc = "Responded"
    /\ LET result == results[Len(results)]
       IN  /\ decision' = retry(policy, result)
           /\ IF decision' = "None"
              THEN /\ pc' = "Done"
                   /\ returned' = Some(result)
              ELSE /\ pc' = "Checking"
                   /\ UNCHANGED returned
           /\ twin' = [twin EXCEPT
                         !.decision = main_retry(twin.policy, result),
                         !.pc = IF main_retry(twin.policy, result) = "None"
                                THEN "Done"
                                ELSE "Checking"]
    /\ UNCHANGED <<root, policy, prev, results, waits, sent, advances, clamped>>
    /\ UNCHANGED <<request, cloned, loops>>

\* Each next() starts its sleep: backoff.rs on the delay of lines 69-81,
\* main.rs on self.delay.
TwinStartNext ==
    /\ pc = "Checking" /\ twin.pc = "Checking"
    /\ prev' = policy
    /\ IF jitter_panics(policy)
       THEN /\ pc' = "Panicked"
            /\ UNCHANGED waits
       ELSE /\ \E delay \in effective_delay(policy) : waits' = Append(waits, delay)
            /\ pc' = "Sleeping"
    /\ twin' = [twin EXCEPT !.pc = "Sleeping",
                            !.waits = Append(@, twin.policy.delay)]
    /\ UNCHANGED <<root, policy, results, sent, decision, advances, clamped, returned>>
    /\ UNCHANGED <<request, cloned, loops>>

\* Both sleeps are over: each next() returns its successor, or panics.
TwinFinishNext ==
    /\ pc = "Sleeping" /\ twin.pc = "Sleeping"
    /\ \E r \in next(policy) :
          IF r.panicked
          THEN /\ pc' = "Panicked"
               /\ UNCHANGED <<policy, advances, clamped>>
          ELSE /\ pc' = "Retrying"
               /\ policy' = r.state
               /\ advances' = advances + 1
               /\ clamped' = (clamped \/ delay_exceeds_max(policy))
    /\ \E t \in main_next(twin.policy) :
          IF t.panicked
          THEN twin' = [twin EXCEPT !.pc = "Panicked"]
          ELSE twin' = [twin EXCEPT !.pc = "Retrying", !.policy = t.state]
    /\ UNCHANGED <<root, prev, results, waits, sent, decision, returned>>
    /\ UNCHANGED <<request, cloned, loops>>

\* Both loops send again.
TwinResend ==
    /\ pc = "Retrying" /\ twin.pc = "Retrying"
    /\ pc' = "Called"
    /\ sent' = sent + 1
    /\ twin' = [twin EXCEPT !.pc = "Called"]
    /\ UNCHANGED <<root, policy, prev, results, waits, decision, advances, clamped, returned>>
    /\ UNCHANGED <<request, cloned, loops>>

NextTwin ==
    TwinCall \/ TwinRespond \/ TwinRetry \/ TwinStartNext \/ TwinFinishNext
        \/ TwinResend

SpecTwin == InitTwin /\ [][NextTwin]_vars

\* C20: from the same attempts, delay, multiplier and max_delay and on the
\* same outcomes, the main.rs Backoff and the backoff.rs Backoff without
\* jitter stand at the same point of the loop after every step, took the
\* same Retry/Stop decision, slept the same durations, and hold states with
\* equal remaining attempts and delay (and multiplier and max_delay).
C20_MainBackoffIsBackoffWithoutJitter ==
    /\ twin.pc = pc
    /\ twin.decision = decision
    /\ twin.waits = waits
    /\ twin.policy.attempts = policy.attempts
    /\ twin.policy.delay = policy.delay
    /\ twin.policy.multiplier = policy.multiplier
    /\ twin.policy.max_delay = policy.max_delay

\* C20's case: both policies decided to retry twice, slept 100 ms and then
\* the 150 ms the second delay was cut down to, and hold the second
\* successor.
C20_Witness ==
    /\ pc = "Retrying"
    /\ advances = 2
    /\ twin.waits = <<100, 150>>
    /\ twin.policy.delay = 150
    /\ twin.policy.attempts = root.attempts - 2

====
